---- MODULE Spec2Model ----
(***************************************************************************)
(* Model of the knowledge-retrieval engine of the malaria dashboard:       *)
(* FastMalariaRAG (src/fast_rag.py) over its persisted ChromaDB collection *)
(* and the corpus file written by QuickMalariaKnowledge                    *)
(* (src/quick_crawler.py).                                                 *)
(*                                                                         *)
(* Strings are TLA+ strings, so len(), slicing and concatenation are the   *)
(* real ones.  The embedding provider and the vector store are external    *)
(* libraries; they are modelled by their call contract at the call sites.  *)
(***************************************************************************)
EXTENDS Integers, Sequences, FiniteSets, TLC

VARIABLES
    fileExists,   \* os.path.exists('malaria_knowledge.json')
    fileFormat,   \* what json.load makes of the file: "list", "object" or "invalid"
    corpus,       \* parsed content of malaria_knowledge.json when it is a list
    store,        \* the persisted collection "malaria_knowledge", in insertion order
    hasInstance,  \* a FastMalariaRAG object has been constructed
    ret,          \* what the last operation did and returned
    pc,           \* concurrent callers: the step each one is at
    loc,          \* concurrent callers: the local variables of each one's call
    ai,           \* the OllamaMalariaAI object: rag, rag_enabled, ollama_available
    reply,        \* what the last call of the assistant did and returned
    chat_history, \* st.session_state.chat_history
    added         \* every entry added since the chat was last cleared

ragVars == <<fileExists, fileFormat, corpus, store, hasInstance, ret>>
concVars == <<pc, loc>>
botVars == <<ai, reply, chat_history, added>>
vars == <<fileExists, fileFormat, corpus, store, hasInstance, ret,
          pc, loc, ai, reply, chat_history, added>>

----------------------------------------------------------------------------
(* Bounds of the model *)

MaxCorpus == 3      \* longest corpus written to the file
MaxK == 2           \* largest n_results a caller passes
MaxAdded == 7       \* most chat entries added between two clears

(* Program constants *)

TruncLimit == 800       \* get_context: len(content) > 800
SeparatorWidth == 80    \* get_context: "-" * 80
HistoryLimit == 5       \* _add_chat_entry: len(chat_history) > 5, chat_history[-5:]
RagResults == 2         \* answer_with_rag: self.rag.search(question, n_results=2)

Min(a, b) == IF a < b THEN a ELSE b

RECURSIVE Rep(_, _)
\* Python's  s * n
Rep(s, n) ==
    IF n <= 0 THEN ""
    ELSE IF n % 2 = 0 THEN LET h == Rep(s, n \div 2) IN h \o h
    ELSE s \o Rep(s, n - 1)

\* Python's None / a supplied value, for Optional[str] parameters
None == <<>>
Some(s) == <<s>>

----------------------------------------------------------------------------
(* The corpus *)

TitlePrefix == "Title: "
ContentPrefix == "\n\nContent: "

\* f"Title: {item['title']}\n\nContent: {item['content']}"
ComposeText(item) == TitlePrefix \o item.title \o ContentPrefix \o item.content

\* content that makes the composed text of `title` exactly n characters long
ContentFor(title, ch, n) ==
    Rep(ch, n - Len(TitlePrefix) - Len(title) - Len(ContentPrefix))

EntryShort ==
    [title |-> "WHO Malaria Treatment Guidelines",
     content |-> "First-line treatment: artemisinin-based combination therapies",
     source |-> "WHO",
     category |-> "treatment"]

\* composed text of exactly TruncLimit characters
EntryAtLimit ==
    [title |-> "Rwanda Malaria Interventions",
     content |-> ContentFor("Rwanda Malaria Interventions", "i", TruncLimit),
     source |-> "Rwanda MOH",
     category |-> "interventions"]

\* composed text of TruncLimit + 1 characters
EntryLong ==
    [title |-> "Severe Malaria Treatment",
     content |-> ContentFor("Severe Malaria Treatment", "s", TruncLimit + 1),
     source |-> "WHO",
     category |-> "treatment"]

Entries == {EntryShort, EntryAtLimit, EntryLong}

RECURSIVE SeqsUpTo(_, _)
SeqsUpTo(S, n) ==
    IF n = 0 THEN {<<>>}
    ELSE LET shorter == SeqsUpTo(S, n - 1)
         IN shorter \cup {Append(s, x) : s \in {t \in shorter : Len(t) = n - 1}, x \in S}

\* the corpora written to the file: up to MaxCorpus pairwise distinct entries
Corpora ==
    {c \in SeqsUpTo(Entries, MaxCorpus) :
        \A i, j \in 1..Len(c) : i # j => c[i] # c[j]}

Queries == {"malaria treatment", "bed net distribution"}
Ks == 0..MaxK
CategoryFilters ==
    {None, Some(""), Some("treatment"), Some("vector_control")}

----------------------------------------------------------------------------
(* The embedding provider: SentenceTransformer.encode, a deterministic map *)
(* from text to a unit vector.                                             *)

\* the output size of 'all-MiniLM-L6-v2'
EmbeddingDimension == 384

\* a vector of the provider: `dim` coordinates, written by the two leading ones
\* (the others are 0)
Vector(x, y) == [dim |-> EmbeddingDimension, lead |-> <<x, y>>]

Encode(text) ==
    CASE text = ComposeText(EntryShort) -> Vector(1, 0)
      [] text = ComposeText(EntryAtLimit) -> Vector(0, 1)
      [] text = ComposeText(EntryLong) -> Vector(-1, 0)
      [] text = "malaria treatment" -> Vector(1, 0)
      [] text = "bed net distribution" -> Vector(0, 1)
      [] OTHER -> Vector(0, -1)

\* the collection's distance (squared L2, the default space of the collection)
Distance(u, v) ==
    (u.lead[1] - v.lead[1]) * (u.lead[1] - v.lead[1])
    + (u.lead[2] - v.lead[2]) * (u.lead[2] - v.lead[2])

----------------------------------------------------------------------------
(* The persisted collection (chromadb): add, count, query *)

Count == Len(store)

StoredIds(coll) == {coll[i].id : i \in 1..Len(coll)}

RECURSIVE AddFrom(_, _, _, _, _, _)
AddFrom(coll, documents, metadatas, embeddings, ids, i) ==
    IF i > Len(ids) THEN coll
    ELSE LET rec == [id |-> ids[i], document |-> documents[i],
                     metadata |-> metadatas[i], embedding |-> embeddings[i]]
             next == IF ids[i] \in StoredIds(coll) THEN coll ELSE Append(coll, rec)
         IN AddFrom(next, documents, metadatas, embeddings, ids, i + 1)

\* an add that stores every record, whether or not its id is in the collection
CollectionAdd_NoIdCheck(coll, documents, metadatas, embeddings, ids) ==
    coll \o [i \in 1..Len(ids) |->
                [id |-> ids[i], document |-> documents[i],
                 metadata |-> metadatas[i], embedding |-> embeddings[i]]]

\* collection.add(documents=, metadatas=, embeddings=, ids=): one call that stores
\* every record whose id is not yet in the collection
CollectionAdd(coll, documents, metadatas, embeddings, ids) ==
    AddFrom(coll, documents, metadatas, embeddings, ids, 1)

\* the where={"category": c} predicate; None when no where is passed
Matching(where) ==
    {i \in 1..Len(store) : where = None \/ store[i].metadata.category = where[1]}

Injective(r) == \A i, j \in 1..Len(r) : i # j => r[i] # r[j]

\* the rankings collection.query may return: the n nearest of the matching
\* documents, nearest first, ties in any order
Rankings(vec, n, where) ==
    LET M == Matching(where)
        size == Min(n, Cardinality(M))
        D(i) == Distance(vec, store[i].embedding)
    IN {r \in [1..size -> M] :
          /\ Injective(r)
          /\ \A i, j \in 1..size : i < j => D(r[i]) <= D(r[j])
          /\ \A m \in M : (\A i \in 1..size : r[i] # m) =>
                 \A i \in 1..size : D(r[i]) <= D(m)}

\* collection.query(query_embeddings=[vec], n_results=n, where=...): raises on
\* n_results <= 0 (the library validates the number of requested results)
CollectionQuery(vec, n, where) ==
    IF n <= 0
    THEN {[raised |-> "TypeError", ids |-> <<>>, documents |-> <<>>,
           metadatas |-> <<>>, distances |-> <<>>]}
    ELSE {[raised |-> "",
           ids |-> [i \in 1..Len(r) |-> store[r[i]].id],
           documents |-> [i \in 1..Len(r) |-> store[r[i]].document],
           metadatas |-> [i \in 1..Len(r) |-> store[r[i]].metadata],
           distances |-> [i \in 1..Len(r) |-> Distance(vec, store[r[i]].embedding)]]
          : r \in Rankings(vec, n, where)}

----------------------------------------------------------------------------
(* FastMalariaRAG.load_knowledge *)

\* ids numbered from 1
DocId_OneBased(i) == "malaria_doc_" \o ToString(i + 1)

\* f"malaria_doc_{i}"
DocId(i) == "malaria_doc_" \o ToString(i)

Documents(knowledge) == [i \in 1..Len(knowledge) |-> ComposeText(knowledge[i])]

\* metadata whose text_length is the length of the content alone
Metadatas_ContentLength(knowledge) ==
    [i \in 1..Len(knowledge) |->
        [title |-> knowledge[i].title,
         source |-> knowledge[i].source,
         category |-> knowledge[i].category,
         text_length |-> Len(knowledge[i].content),
         entry_id |-> i - 1]]

Metadatas(knowledge) ==
    [i \in 1..Len(knowledge) |->
        [title |-> knowledge[i].title,
         source |-> knowledge[i].source,
         category |-> knowledge[i].category,
         text_length |-> Len(ComposeText(knowledge[i])),
         entry_id |-> i - 1]]

Ids(knowledge) == [i \in 1..Len(knowledge) |-> DocId(i - 1)]

\* self.embedder.encode(documents).tolist()
EncodeMany(documents) == [i \in 1..Len(documents) |-> Encode(documents[i])]

\* a build that never takes the "already loaded" return
AlreadyEmbedded_Never == FALSE

\* "Check if already embedded"
AlreadyEmbedded == Count > 0

BuildOutcome(path, raised, coll, calls) ==
    [path |-> path, raised |-> raised, store |-> coll, encodeCalls |-> calls]

\* a build whose failing add has already stored the first document
load_knowledge_PartialAdd ==
    IF ~fileExists THEN {BuildOutcome("not_found", "", store, 0)}
    ELSE IF AlreadyEmbedded THEN {BuildOutcome("already_loaded", "", store, 0)}
    ELSE IF fileFormat = "invalid"
    THEN {BuildOutcome("parsing", "JSONDecodeError", store, 0)}
    ELSE IF fileFormat = "object"
    THEN {BuildOutcome("preparing", "TypeError", store, 0)}
    ELSE IF corpus = <<>> THEN {BuildOutcome("empty", "", store, 0)}
    ELSE LET documents == Documents(corpus)
             metadatas == Metadatas(corpus)
             ids == Ids(corpus)
             embeddings == EncodeMany(documents)
         IN {BuildOutcome("embedding", "ProviderError", store, 1),
             BuildOutcome("storing", "StoreError",
                          CollectionAdd(store, SubSeq(documents, 1, 1),
                                        SubSeq(metadatas, 1, 1),
                                        SubSeq(embeddings, 1, 1),
                                        SubSeq(ids, 1, 1)), 1),
             BuildOutcome("embedded", "",
                          CollectionAdd(store, documents, metadatas, embeddings, ids), 1)}

\* a build without the os.path.exists check: open() raises on the missing file
load_knowledge_NoExistsCheck ==
    IF AlreadyEmbedded THEN {BuildOutcome("already_loaded", "", store, 0)}
    ELSE IF ~fileExists
    THEN {BuildOutcome("reading", "FileNotFoundError", store, 0)}
    ELSE IF fileFormat = "invalid"
    THEN {BuildOutcome("parsing", "JSONDecodeError", store, 0)}
    ELSE IF fileFormat = "object"
    THEN {BuildOutcome("preparing", "TypeError", store, 0)}
    ELSE IF corpus = <<>> THEN {BuildOutcome("empty", "", store, 0)}
    ELSE LET documents == Documents(corpus)
             metadatas == Metadatas(corpus)
             ids == Ids(corpus)
             embeddings == EncodeMany(documents)
         IN {BuildOutcome("embedding", "ProviderError", store, 1),
             BuildOutcome("storing", "StoreError", store, 1),
             BuildOutcome("embedded", "",
                          CollectionAdd(store, documents, metadatas, embeddings, ids), 1)}

\* a build without the "if not knowledge" return: the empty list is encoded and
\* the add of nothing is rejected by the collection
load_knowledge_NoEmptyCheck ==
    IF ~fileExists THEN {BuildOutcome("not_found", "", store, 0)}
    ELSE IF AlreadyEmbedded THEN {BuildOutcome("already_loaded", "", store, 0)}
    ELSE IF fileFormat = "invalid"
    THEN {BuildOutcome("parsing", "JSONDecodeError", store, 0)}
    ELSE IF fileFormat = "object"
    THEN {BuildOutcome("preparing", "TypeError", store, 0)}
    ELSE IF corpus = <<>>
    THEN {BuildOutcome("embedding", "ProviderError", store, 1),
          BuildOutcome("storing", "ValueError", store, 1)}
    ELSE LET documents == Documents(corpus)
             metadatas == Metadatas(corpus)
             ids == Ids(corpus)
             embeddings == EncodeMany(documents)
         IN {BuildOutcome("embedding", "ProviderError", store, 1),
             BuildOutcome("storing", "StoreError", store, 1),
             BuildOutcome("embedded", "",
                          CollectionAdd(store, documents, metadatas, embeddings, ids), 1)}

\* a build that stores zero vectors when the embedding provider fails
load_knowledge_ZeroVectors ==
    IF ~fileExists THEN {BuildOutcome("not_found", "", store, 0)}
    ELSE IF AlreadyEmbedded THEN {BuildOutcome("already_loaded", "", store, 0)}
    ELSE IF fileFormat = "invalid"
    THEN {BuildOutcome("parsing", "JSONDecodeError", store, 0)}
    ELSE IF fileFormat = "object"
    THEN {BuildOutcome("preparing", "TypeError", store, 0)}
    ELSE IF corpus = <<>> THEN {BuildOutcome("empty", "", store, 0)}
    ELSE LET documents == Documents(corpus)
             metadatas == Metadatas(corpus)
             ids == Ids(corpus)
             embeddings == EncodeMany(documents)
             zeros == [i \in 1..Len(documents) |-> Vector(0, 0)]
         IN {BuildOutcome("embedding", "",
                          CollectionAdd(store, documents, metadatas, zeros, ids), 1),
             BuildOutcome("storing", "StoreError", store, 1),
             BuildOutcome("embedded", "",
                          CollectionAdd(store, documents, metadatas, embeddings, ids), 1)}

\* a build that replaces the collection when the corpus file holds another
\* list than the one stored
load_knowledge_Refresh ==
    IF ~fileExists THEN {BuildOutcome("not_found", "", store, 0)}
    ELSE IF AlreadyEmbedded /\
            (fileFormat # "list" \/
             Documents(corpus) = [i \in 1..Len(store) |-> store[i].document])
    THEN {BuildOutcome("already_loaded", "", store, 0)}
    ELSE IF fileFormat = "invalid"
    THEN {BuildOutcome("parsing", "JSONDecodeError", store, 0)}
    ELSE IF fileFormat = "object"
    THEN {BuildOutcome("preparing", "TypeError", store, 0)}
    ELSE IF corpus = <<>> THEN {BuildOutcome("empty", "", <<>>, 0)}
    ELSE LET documents == Documents(corpus)
             metadatas == Metadatas(corpus)
             ids == Ids(corpus)
             embeddings == EncodeMany(documents)
         IN {BuildOutcome("embedding", "ProviderError", store, 1),
             BuildOutcome("storing", "StoreError", store, 1),
             BuildOutcome("embedded", "",
                          CollectionAdd(<<>>, documents, metadatas, embeddings, ids), 1)}

\* the outcomes of one run of load_knowledge on the current file and collection:
\* json.load raises on a file that is not JSON; a JSON object (not a list) gets
\* past "if not knowledge" and raises in the loop at item['title']; the
\* embedding call and the add call may each fail, and a failed call stores
\* nothing
load_knowledge ==
    IF ~fileExists THEN {BuildOutcome("not_found", "", store, 0)}
    ELSE IF AlreadyEmbedded THEN {BuildOutcome("already_loaded", "", store, 0)}
    ELSE IF fileFormat = "invalid"
    THEN {BuildOutcome("parsing", "JSONDecodeError", store, 0)}
    ELSE IF fileFormat = "object"
    THEN {BuildOutcome("preparing", "TypeError", store, 0)}
    ELSE IF corpus = <<>> THEN {BuildOutcome("empty", "", store, 0)}
    ELSE LET documents == Documents(corpus)
             metadatas == Metadatas(corpus)
             ids == Ids(corpus)
             embeddings == EncodeMany(documents)
         IN {BuildOutcome("embedding", "ProviderError", store, 1),
             BuildOutcome("storing", "StoreError", store, 1),
             BuildOutcome("embedded", "",
                          CollectionAdd(store, documents, metadatas, embeddings, ids), 1)}

----------------------------------------------------------------------------
(* FastMalariaRAG.search *)

\* a search that never takes the empty-index return
IndexEmpty_Never == FALSE

\* if self.collection.count() == 0
IndexEmpty == Count = 0

\* "n_results": min(n_results, self.collection.count())
EffectiveK(n_results) == Min(n_results, Count)

\* if category_filter:   (None and "" are both falsy)
FilterApplied(category_filter) ==
    category_filter # None /\ category_filter[1] # ""

\* search_params["where"]
SearchWhere(category_filter) ==
    IF FilterApplied(category_filter) THEN category_filter ELSE None

\* a score clamped at 0
RelevanceScore_Clamped(distance) == IF 1 - distance < 0 THEN 0 ELSE 1 - distance

\* 1 - results['distances'][0][i]
RelevanceScore(distance) == 1 - distance

FormatResult(results, i) ==
    [content |-> results.documents[i],
     metadata |-> results.metadatas[i],
     relevance_score |-> RelevanceScore(results.distances[i]),
     distance |-> results.distances[i]]

\* a loop that emits the results last to first
FormatResults_Reversed(results) ==
    [i \in 1..Len(results.documents) |->
        FormatResult(results, Len(results.documents) + 1 - i)]

\* the formatted_results loop
FormatResults(results) ==
    [i \in 1..Len(results.documents) |-> FormatResult(results, i)]

SearchOutcome(path, raised, results, queried, requested) ==
    [path |-> path, raised |-> raised, results |-> results, queried |-> queried,
     requested |-> requested]

\* the outcomes of search(query, n_results, category_filter): `path` is the step
\* at which search left, `queried` the id order the collection returned,
\* `requested` the n_results passed to it (-1 when the collection was not queried)
search(query, n_results, category_filter) ==
    IF IndexEmpty THEN {SearchOutcome("empty", "", <<>>, <<>>, -1)}
    ELSE {SearchOutcome("encoding", "ProviderError", <<>>, <<>>, -1)}
         \cup
         {IF o.raised # ""
          THEN SearchOutcome("querying", o.raised, <<>>, <<>>, EffectiveK(n_results))
          ELSE SearchOutcome("formatted", "", FormatResults(o), o.ids,
                             EffectiveK(n_results))
          : o \in CollectionQuery(Encode(query), EffectiveK(n_results),
                                  SearchWhere(category_filter))}

----------------------------------------------------------------------------
(* FastMalariaRAG.get_context *)

Sentinel == "No relevant malaria knowledge found."
\* the header line; its leading emoji (one code point) is written "*"
Header == "* RELEVANT MALARIA KNOWLEDGE:\n\n"
TruncationMarker == "...\n[Content truncated for brevity]"

\* a truncation that also cuts content of exactly the limit
TruncateContent_AtLimit(content) ==
    IF Len(content) >= TruncLimit
    THEN SubSeq(content, 1, TruncLimit) \o TruncationMarker
    ELSE content

\* if len(content) > 800: content = content[:800] + marker
TruncateContent(content) ==
    IF Len(content) > TruncLimit
    THEN SubSeq(content, 1, TruncLimit) \o TruncationMarker
    ELSE content

\* f"{relevance:.3f}" of an integer-valued score
FormatRelevance(relevance) == ToString(relevance) \o ".000"

\* blocks numbered from 0
RenderBlock_ZeroBased(i, result) ==
    ToString(i - 1) \o ". " \o result.metadata.title \o "\n"
    \o "   Source: " \o result.metadata.source
    \o " | Category: " \o result.metadata.category \o "\n"
    \o "   Relevance: " \o FormatRelevance(result.relevance_score) \o "\n\n"
    \o TruncateContent(result.content) \o "\n\n"
    \o Rep("-", SeparatorWidth) \o "\n\n"

\* the text one loop iteration appends for the i-th result (1-based)
RenderBlock(i, result) ==
    ToString(i) \o ". " \o result.metadata.title \o "\n"
    \o "   Source: " \o result.metadata.source
    \o " | Category: " \o result.metadata.category \o "\n"
    \o "   Relevance: " \o FormatRelevance(result.relevance_score) \o "\n\n"
    \o TruncateContent(result.content) \o "\n\n"
    \o Rep("-", SeparatorWidth) \o "\n\n"

RECURSIVE RenderFrom(_, _)
RenderFrom(results, i) ==
    IF i > Len(results) THEN ""
    ELSE RenderBlock(i, results[i]) \o RenderFrom(results, i + 1)

\* a rendering without the empty-result return
RenderContext_NoSentinel(results) == Header \o RenderFrom(results, 1)

\* the string get_context builds from what search returned
RenderContext(results) ==
    IF results = <<>> THEN Sentinel
    ELSE Header \o RenderFrom(results, 1)

ContextOutcome(raised, context, results, rendered) ==
    [raised |-> raised, context |-> context, results |-> results,
     rendered |-> rendered]

\* a get_context that searches within the category "treatment"
get_context_Filtered(query, n_results) ==
    {IF s.raised # ""
     THEN ContextOutcome(s.raised, "", <<>>, <<>>)
     ELSE ContextOutcome("", RenderContext(s.results), s.results,
                         [i \in 1..Len(s.results) |->
                             TruncateContent(s.results[i].content)])
     : s \in search(query, n_results, Some("treatment"))}

\* the outcomes of get_context(query, n_results): `results` is what its search
\* call returned, `rendered` the content string appended for each result
get_context(query, n_results) ==
    {IF s.raised # ""
     THEN ContextOutcome(s.raised, "", <<>>, <<>>)
     ELSE ContextOutcome("", RenderContext(s.results), s.results,
                         [i \in 1..Len(s.results) |->
                             TruncateContent(s.results[i].content)])
     : s \in search(query, n_results, None)}

----------------------------------------------------------------------------
(* FastMalariaRAG.get_categories and FastMalariaRAG.get_stats *)

\* self.collection.get()['metadatas']
AllMetadatas == [i \in 1..Len(store) |-> store[i].metadata]

\* the characters of the model's strings, in code point order
CodeOrder == " 0123456789ABCDEFGHIJKLMNOPQRSTUVWXYZ_abcdefghijklmnopqrstuvwxyz"

CharRank(ch) == CHOOSE i \in 1..Len(CodeOrder) : SubSeq(CodeOrder, i, i) = ch

RECURSIVE StrLessFrom(_, _, _)
StrLessFrom(a, b, i) ==
    IF i > Len(a) THEN i <= Len(b)
    ELSE IF i > Len(b) THEN FALSE
    ELSE LET ca == SubSeq(a, i, i)
             cb == SubSeq(b, i, i)
         IN IF ca = cb THEN StrLessFrom(a, b, i + 1)
            ELSE CharRank(ca) < CharRank(cb)

\* Python's a < b on str
StrLess(a, b) == StrLessFrom(a, b, 1)

\* categories in the order the loop first meets them, each once, unsorted
SortedList_Unsorted(S) ==
    LET first(c) == CHOOSE i \in 1..Len(store) :
                        /\ store[i].metadata.category = c
                        /\ \A j \in 1..(i - 1) : store[j].metadata.category # c
        order == {first(c) : c \in S}
        nth(k) == CHOOSE i \in order : Cardinality({j \in order : j < i}) = k - 1
    IN [k \in 1..Cardinality(S) |-> store[nth(k)].metadata.category]

RECURSIVE SortedList(_)
\* sorted(list(S)) of a set of strings
SortedList(S) ==
    IF S = {} THEN <<>>
    ELSE LET least == CHOOSE x \in S : \A y \in S \ {x} : StrLess(x, y)
         IN <<least>> \o SortedList(S \ {least})

\* the category of the first document only
CategorySet_First == {AllMetadatas[1].category}

\* the set the loop of get_categories collects
CategorySet == {AllMetadatas[i].category : i \in 1..Len(AllMetadatas)}

get_categories ==
    IF Count = 0 THEN <<>>
    ELSE SortedList(CategorySet)

\* the output size of a larger embedding model (768)
VectorDimensions_Larger == 2 * 384

VectorDimensions == 384     \* "vector_dimensions": 384

\* a tally that records a key without counting its repetitions
TallyStep_NoIncrement(d, k) ==
    [x \in DOMAIN d \cup {k} |-> IF x = k THEN 1 ELSE d[x]]

\* d[k] = d.get(k, 0) + 1
TallyStep(d, k) ==
    [x \in DOMAIN d \cup {k} |->
        IF x = k THEN (IF k \in DOMAIN d THEN d[k] ELSE 0) + 1 ELSE d[x]]

RECURSIVE TallyFrom(_, _, _)
TallyFrom(keys, i, d) ==
    IF i > Len(keys) THEN d
    ELSE TallyFrom(keys, i + 1, TallyStep(d, keys[i]))

\* the dict the loop of get_stats builds for one metadata field
Tally(keys) == TallyFrom(keys, 1, [x \in {} |-> 0])

\* a total that counts the entries instead of adding their lengths
TotalFrom_CountsEntries(lengths, i) == Len(lengths) - i + 1

RECURSIVE TotalFrom(_, _)
TotalFrom(lengths, i) ==
    IF i > Len(lengths) THEN 0
    ELSE lengths[i] + TotalFrom(lengths, i + 1)

\* total_length / count(): true division, kept as the exact quotient
TrueDiv(a, b) == [num |-> a, den |-> b]

StatsError == [error |-> "No knowledge base loaded"]

\* a get_stats without the empty-index return: a zero-filled record
get_stats_ZeroFilled ==
    LET metadatas == AllMetadatas
        total_length == TotalFrom([i \in 1..Len(metadatas) |-> metadatas[i].text_length], 1)
    IN [total_documents |-> Count,
        categories |-> Tally([i \in 1..Len(metadatas) |-> metadatas[i].category]),
        sources |-> Tally([i \in 1..Len(metadatas) |-> metadatas[i].source]),
        total_text_length |-> total_length,
        avg_document_length |-> TrueDiv(total_length, Count),
        vector_dimensions |-> VectorDimensions]

get_stats ==
    IF Count = 0 THEN StatsError
    ELSE LET metadatas == AllMetadatas
             total_length ==
                 TotalFrom([i \in 1..Len(metadatas) |-> metadatas[i].text_length], 1)
         IN [total_documents |-> Count,
             categories |-> Tally([i \in 1..Len(metadatas) |-> metadatas[i].category]),
             sources |-> Tally([i \in 1..Len(metadatas) |-> metadatas[i].source]),
             total_text_length |-> total_length,
             avg_document_length |-> TrueDiv(total_length, Count),
             vector_dimensions |-> VectorDimensions]

----------------------------------------------------------------------------
(* The state machine *)

NoRet ==
    [op |-> "none", path |-> "", raised |-> "", encodeCalls |-> 0,
     query |-> "", n_results |-> 0, category_filter |-> None,
     results |-> <<>>, queried |-> <<>>, requested |-> -1,
     context |-> "", rendered |-> <<>>,
     stats |-> <<>>, categories |-> <<>>, fresh |-> FALSE]

\* no concurrent caller, no assistant, no chat
NoCallers == pc = <<>> /\ loc = <<>>
NoReply == [op |-> "none"]
NoObject ==
    [constructed |-> FALSE, RAG_AVAILABLE |-> FALSE, rag |-> FALSE,
     rag_enabled |-> FALSE, ollama_available |-> FALSE]
NoAssistant ==
    /\ ai = NoObject
    /\ reply = NoReply
    /\ chat_history = <<>>
    /\ added = <<>>

Init ==
    /\ fileExists = FALSE
    /\ fileFormat = "list"
    /\ corpus = <<>>
    /\ store = <<>>
    /\ hasInstance = FALSE
    /\ ret = NoRet
    /\ NoCallers
    /\ NoAssistant

\* QuickMalariaKnowledge.save_knowledge: (re)writes malaria_knowledge.json
SaveKnowledge(knowledge_base) ==
    /\ fileExists' = TRUE
    /\ fileFormat' = "list"
    /\ corpus' = knowledge_base
    /\ ret' = [NoRet EXCEPT !.op = "save_knowledge"]
    /\ UNCHANGED <<store, hasInstance>>
    /\ UNCHANGED <<concVars, botVars>>

\* the file as left by anything else than the crawler: JSON that is no list
\* (an object), or no JSON at all
OtherFormats == {"object", "invalid"}

WriteOtherFile(format) ==
    /\ fileExists' = TRUE
    /\ fileFormat' = format
    /\ corpus' = <<>>
    /\ ret' = [NoRet EXCEPT !.op = "write_file"]
    /\ UNCHANGED <<store, hasInstance>>
    /\ UNCHANGED <<concVars, botVars>>

\* malaria_knowledge.json is removed
RemoveFile ==
    /\ fileExists
    /\ fileExists' = FALSE
    /\ fileFormat' = "list"
    /\ corpus' = <<>>
    /\ ret' = [NoRet EXCEPT !.op = "remove_file"]
    /\ UNCHANGED <<store, hasInstance>>
    /\ UNCHANGED <<concVars, botVars>>

\* the process ends: its FastMalariaRAG object is gone, the persisted collection
\* and the file stay
Restart ==
    /\ hasInstance
    /\ hasInstance' = FALSE
    /\ ret' = [NoRet EXCEPT !.op = "exit"]
    /\ UNCHANGED <<fileExists, fileFormat, corpus, store>>
    /\ UNCHANGED <<concVars, botVars>>

BuildRet(op, o) ==
    [NoRet EXCEPT !.op = op, !.path = o.path, !.raised = o.raised,
                  !.encodeCalls = o.encodeCalls]

\* FastMalariaRAG(): connects to the collection and runs load_knowledge; an
\* exception leaves no object.  ret.fresh: the process had no object before
Construct ==
    \E o \in load_knowledge :
        /\ store' = o.store
        /\ hasInstance' = (hasInstance \/ o.raised = "")
        /\ ret' = [BuildRet("__init__", o) EXCEPT !.fresh = ~hasInstance]
        /\ UNCHANGED <<fileExists, fileFormat, corpus>>
        /\ UNCHANGED <<concVars, botVars>>

\* rag.load_knowledge() called again on an existing object
LoadKnowledge ==
    /\ hasInstance
    /\ \E o \in load_knowledge :
        /\ store' = o.store
        /\ ret' = BuildRet("load_knowledge", o)
        /\ UNCHANGED <<fileExists, fileFormat, corpus, hasInstance>>
        /\ UNCHANGED <<concVars, botVars>>

Search(query, n_results, category_filter) ==
    /\ hasInstance
    /\ \E o \in search(query, n_results, category_filter) :
        ret' = [NoRet EXCEPT !.op = "search", !.path = o.path,
                             !.raised = o.raised,
                             !.query = query, !.n_results = n_results,
                             !.category_filter = category_filter,
                             !.results = o.results, !.queried = o.queried,
                             !.requested = o.requested]
    /\ UNCHANGED <<fileExists, fileFormat, corpus, store, hasInstance>>
    /\ UNCHANGED <<concVars, botVars>>

GetContext(query, n_results) ==
    /\ hasInstance
    /\ \E o \in get_context(query, n_results) :
        ret' = [NoRet EXCEPT !.op = "get_context", !.raised = o.raised,
                             !.query = query, !.n_results = n_results,
                             !.results = o.results, !.context = o.context,
                             !.rendered = o.rendered]
    /\ UNCHANGED <<fileExists, fileFormat, corpus, store, hasInstance>>
    /\ UNCHANGED <<concVars, botVars>>

GetCategories ==
    /\ hasInstance
    /\ ret' = [NoRet EXCEPT !.op = "get_categories", !.categories = get_categories]
    /\ UNCHANGED <<fileExists, fileFormat, corpus, store, hasInstance>>
    /\ UNCHANGED <<concVars, botVars>>

GetStats ==
    /\ hasInstance
    /\ ret' = [NoRet EXCEPT !.op = "get_stats", !.stats = get_stats]
    /\ UNCHANGED <<fileExists, fileFormat, corpus, store, hasInstance>>
    /\ UNCHANGED <<concVars, botVars>>

Next ==
    \/ \E c \in Corpora : SaveKnowledge(c)
    \/ \E f \in OtherFormats : WriteOtherFile(f)
    \/ RemoveFile
    \/ Restart
    \/ Construct
    \/ LoadKnowledge
    \/ \E q \in Queries, k \in Ks, c \in CategoryFilters : Search(q, k, c)
    \/ \E q \in Queries, k \in Ks : GetContext(q, k)
    \/ GetCategories
    \/ GetStats

Spec == Init /\ [][Next]_vars

----------------------------------------------------------------------------
(* Concurrent callers.  Each call is cut at its accesses to what the callers *)
(* share: the corpus file and the persisted collection.  What a call        *)
(* computes between two accesses is local to it.                            *)

Callers == {"first", "second"}

\* the local variables of a call
NoLocals ==
    [op |-> "none", path |-> "", raised |-> "",
     knowledge |-> <<>>, embeddings |-> <<>>,
     query |-> "", n_results |-> 0, category_filter |-> None,
     query_embedding |-> <<>>, k |-> -1, got |-> <<>>, result |-> <<>>]

Idle == [p \in Callers |-> "idle"]

\* the corpus file as a build may find it: absent, a list, or something else
FileStates ==
    {[exists |-> FALSE, format |-> "list", knowledge |-> <<>>]}
    \cup {[exists |-> TRUE, format |-> "list", knowledge |-> c] : c \in Corpora}
    \cup {[exists |-> TRUE, format |-> f, knowledge |-> <<>>] : f \in OtherFormats}

\* a call returns or raises: `path` names the statement at which it left
Leave(p, path, raised) ==
    /\ pc' = [pc EXCEPT ![p] = "done"]
    /\ loc' = [loc EXCEPT ![p].path = path, ![p].raised = raised]

Goto(p, label) == pc' = [pc EXCEPT ![p] = label]

(* load_knowledge, run by FastMalariaRAG() in each caller *)

\* FastMalariaRAG(): get_or_create_collection, then load_knowledge starts
BuildStart(p) ==
    /\ pc[p] \in {"idle", "done"}
    /\ Goto(p, "exists")
    /\ loc' = [loc EXCEPT ![p] = [NoLocals EXCEPT !.op = "__init__"]]
    /\ UNCHANGED <<ragVars, botVars>>

\* if not os.path.exists('malaria_knowledge.json'): return
BuildExists(p) ==
    /\ pc[p] = "exists"
    /\ IF ~fileExists THEN Leave(p, "not_found", "")
       ELSE Goto(p, "count") /\ UNCHANGED loc
    /\ UNCHANGED <<ragVars, botVars>>

\* if self.collection.count() > 0: return
BuildCount(p) ==
    /\ pc[p] = "count"
    /\ IF Len(store) > 0 THEN Leave(p, "already_loaded", "")
       ELSE Goto(p, "read") /\ UNCHANGED loc
    /\ UNCHANGED <<ragVars, botVars>>

\* json.load, "if not knowledge", and the loop that prepares the documents
BuildRead(p) ==
    /\ pc[p] = "read"
    /\ IF fileFormat = "invalid" THEN Leave(p, "parsing", "JSONDecodeError")
       ELSE IF fileFormat = "object" THEN Leave(p, "preparing", "TypeError")
       ELSE IF corpus = <<>> THEN Leave(p, "empty", "")
       ELSE /\ Goto(p, "encode")
            /\ loc' = [loc EXCEPT ![p].knowledge = corpus]
    /\ UNCHANGED <<ragVars, botVars>>

\* embeddings = self.embedder.encode(documents).tolist(), or the provider fails
BuildEncode(p) ==
    /\ pc[p] = "encode"
    /\ \E failed \in BOOLEAN :
          IF failed THEN Leave(p, "embedding", "ProviderError")
          ELSE /\ Goto(p, "add")
               /\ loc' = [loc EXCEPT ![p].embeddings =
                                         EncodeMany(Documents(loc[p].knowledge))]
    /\ UNCHANGED <<ragVars, botVars>>

\* self.collection.add(...), or the store fails
BuildAdd(p) ==
    /\ pc[p] = "add"
    /\ \E failed \in BOOLEAN :
          IF failed
          THEN Leave(p, "storing", "StoreError") /\ UNCHANGED store
          ELSE /\ Leave(p, "embedded", "")
               /\ store' = CollectionAdd(store, Documents(loc[p].knowledge),
                                         Metadatas(loc[p].knowledge),
                                         loc[p].embeddings, Ids(loc[p].knowledge))
    /\ UNCHANGED <<fileExists, fileFormat, corpus, hasInstance, ret, botVars>>

\* two callers construct FastMalariaRAG on the same empty store and the same file
InitBuilds ==
    /\ \E f \in FileStates :
          /\ fileExists = f.exists
          /\ fileFormat = f.format
          /\ corpus = f.knowledge
    /\ store = <<>>
    /\ hasInstance = FALSE
    /\ ret = NoRet
    /\ pc = Idle
    /\ loc = [p \in Callers |-> NoLocals]
    /\ NoAssistant

NextBuilds ==
    \E p \in Callers :
        \/ BuildStart(p)
        \/ BuildExists(p)
        \/ BuildCount(p)
        \/ BuildRead(p)
        \/ BuildEncode(p)
        \/ BuildAdd(p)

SpecBuilds == InitBuilds /\ [][NextBuilds]_vars

(* search, get_context, get_categories and get_stats, called by each caller *)
(* on one FastMalariaRAG object after the build                             *)

\* a call returns `result`
Return(p, path, result) ==
    /\ pc' = [pc EXCEPT ![p] = "done"]
    /\ loc' = [loc EXCEPT ![p].path = path, ![p].result = result]

\* the caller has its result (or the error) and is ready for its next call
CallOver(p) ==
    /\ pc[p] = "done"
    /\ Goto(p, "idle")
    /\ loc' = [loc EXCEPT ![p] = NoLocals]
    /\ UNCHANGED <<ragVars, botVars>>

\* search(query, n_results, category_filter) is called
SearchStart(p, query, n_results, category_filter) ==
    /\ pc[p] = "idle"
    /\ Goto(p, "search_empty")
    /\ loc' = [loc EXCEPT ![p] =
                  [NoLocals EXCEPT !.op = "search", !.query = query,
                                   !.n_results = n_results,
                                   !.category_filter = category_filter]]
    /\ UNCHANGED <<ragVars, botVars>>

\* get_context(query, n_results) is called: it calls search(query, n_results)
ContextStart(p, query, n_results) ==
    /\ pc[p] = "idle"
    /\ Goto(p, "search_empty")
    /\ loc' = [loc EXCEPT ![p] =
                  [NoLocals EXCEPT !.op = "get_context", !.query = query,
                                   !.n_results = n_results]]
    /\ UNCHANGED <<ragVars, botVars>>

\* what the call returns once its search has returned `results`
SearchReturn(p, path, results) ==
    IF loc[p].op = "get_context"
    THEN Return(p, path, RenderContext(results))
    ELSE Return(p, path, results)

\* if self.collection.count() == 0: return []
SearchEmpty(p) ==
    /\ pc[p] = "search_empty"
    /\ IF Len(store) = 0 THEN SearchReturn(p, "empty", <<>>)
       ELSE Goto(p, "search_encode") /\ UNCHANGED loc
    /\ UNCHANGED <<ragVars, botVars>>

\* query_embedding = self.embedder.encode([query]).tolist()[0], or the provider fails
SearchEncode(p) ==
    /\ pc[p] = "search_encode"
    /\ \E failed \in BOOLEAN :
          IF failed THEN Leave(p, "encoding", "ProviderError")
          ELSE /\ Goto(p, "search_count")
               /\ loc' = [loc EXCEPT ![p].query_embedding = Encode(loc[p].query)]
    /\ UNCHANGED <<ragVars, botVars>>

\* "n_results": min(n_results, self.collection.count())
SearchCount(p) ==
    /\ pc[p] = "search_count"
    /\ Goto(p, "search_query")
    /\ loc' = [loc EXCEPT ![p].k = Min(loc[p].n_results, Len(store))]
    /\ UNCHANGED <<ragVars, botVars>>

\* a where clause kept in one place for all callers
CallerWhere_Shared(p) == SearchWhere(loc["first"].category_filter)

\* search_params["where"], a local of the call
CallerWhere(p) == SearchWhere(loc[p].category_filter)

\* self.collection.query(**search_params) and the formatting loop
SearchQuery(p) ==
    /\ pc[p] = "search_query"
    /\ \E o \in CollectionQuery(loc[p].query_embedding, loc[p].k, CallerWhere(p)) :
          IF o.raised # "" THEN Leave(p, "querying", o.raised)
          ELSE SearchReturn(p, "formatted", FormatResults(o))
    /\ UNCHANGED <<ragVars, botVars>>

\* get_categories() is called
CategoriesStart(p) ==
    /\ pc[p] = "idle"
    /\ Goto(p, "categories_empty")
    /\ loc' = [loc EXCEPT ![p] = [NoLocals EXCEPT !.op = "get_categories"]]
    /\ UNCHANGED <<ragVars, botVars>>

\* if self.collection.count() == 0: return []
CategoriesEmpty(p) ==
    /\ pc[p] = "categories_empty"
    /\ IF Len(store) = 0 THEN Return(p, "empty", <<>>)
       ELSE Goto(p, "categories_get") /\ UNCHANGED loc
    /\ UNCHANGED <<ragVars, botVars>>

\* results = self.collection.get(), the loop and sorted(list(categories))
CategoriesGet(p) ==
    /\ pc[p] = "categories_get"
    /\ Return(p, "listed",
              SortedList({AllMetadatas[i].category : i \in 1..Len(AllMetadatas)}))
    /\ UNCHANGED <<ragVars, botVars>>

\* get_stats() is called
StatsStart(p) ==
    /\ pc[p] = "idle"
    /\ Goto(p, "stats_empty")
    /\ loc' = [loc EXCEPT ![p] = [NoLocals EXCEPT !.op = "get_stats"]]
    /\ UNCHANGED <<ragVars, botVars>>

\* if self.collection.count() == 0: return {"error": ...}
StatsEmpty(p) ==
    /\ pc[p] = "stats_empty"
    /\ IF Len(store) = 0 THEN Return(p, "empty", StatsError)
       ELSE Goto(p, "stats_get") /\ UNCHANGED loc
    /\ UNCHANGED <<ragVars, botVars>>

\* results = self.collection.get(); the tallies are computed from it
StatsGet(p) ==
    /\ pc[p] = "stats_get"
    /\ Goto(p, "stats_total")
    /\ loc' = [loc EXCEPT ![p].got = AllMetadatas]
    /\ UNCHANGED <<ragVars, botVars>>

\* "total_documents": self.collection.count()
StatsTotal(p) ==
    /\ pc[p] = "stats_total"
    /\ Goto(p, "stats_avg")
    /\ loc' = [loc EXCEPT ![p].k = Len(store)]
    /\ UNCHANGED <<ragVars, botVars>>

\* "avg_document_length": total_length / self.collection.count(), and the return
StatsAvg(p) ==
    /\ pc[p] = "stats_avg"
    /\ LET metadatas == loc[p].got
           total_length ==
               TotalFrom([i \in 1..Len(metadatas) |-> metadatas[i].text_length], 1)
       IN Return(p, "tallied",
                 [total_documents |-> loc[p].k,
                  categories |-> Tally([i \in 1..Len(metadatas) |-> metadatas[i].category]),
                  sources |-> Tally([i \in 1..Len(metadatas) |-> metadatas[i].source]),
                  total_text_length |-> total_length,
                  avg_document_length |-> TrueDiv(total_length, Len(store)),
                  vector_dimensions |-> VectorDimensions])
    /\ UNCHANGED <<ragVars, botVars>>

\* the collection a completed build left: empty, or the documents of a corpus
BuiltStore(knowledge) ==
    CollectionAdd(<<>>, Documents(knowledge), Metadatas(knowledge),
                  EncodeMany(Documents(knowledge)), Ids(knowledge))

\* the category filters the concurrent callers pass
CallerFilters == {None, Some("treatment")}

\* the build has completed; the callers share the object
InitQueries ==
    /\ \E c \in Corpora :
          /\ corpus = c
          /\ store = BuiltStore(c)
    /\ fileExists = TRUE
    /\ fileFormat = "list"
    /\ hasInstance = TRUE
    /\ ret = NoRet
    /\ pc = Idle
    /\ loc = [p \in Callers |-> NoLocals]
    /\ NoAssistant

NextQueries ==
    \E p \in Callers :
        \/ \E q \in Queries, k \in Ks, c \in CallerFilters : SearchStart(p, q, k, c)
        \/ \E q \in Queries, k \in Ks : ContextStart(p, q, k)
        \/ SearchEmpty(p)
        \/ SearchEncode(p)
        \/ SearchCount(p)
        \/ SearchQuery(p)
        \/ CategoriesStart(p)
        \/ CategoriesEmpty(p)
        \/ CategoriesGet(p)
        \/ StatsStart(p)
        \/ StatsEmpty(p)
        \/ StatsGet(p)
        \/ StatsTotal(p)
        \/ StatsAvg(p)
        \/ CallOver(p)

SpecQueries == InitQueries /\ [][NextQueries]_vars

----------------------------------------------------------------------------
(* The chat of the assistant page: CleanMalariaBotUI (src/malaria_bot.py) *)

\* the responses and the datetime.now().strftime("%H:%M") values of the entries
Replies == {"Use ACT as first-line treatment."}
Times == {"09:00", "09:01"}

\* a trim that keeps the oldest entries
TrimHistory_KeepFirst(history) ==
    IF Len(history) > HistoryLimit
    THEN SubSeq(history, 1, HistoryLimit)
    ELSE history

\* if len(chat_history) > 5: chat_history = chat_history[-5:]
TrimHistory(history) ==
    IF Len(history) > HistoryLimit
    THEN SubSeq(history, Len(history) - HistoryLimit + 1, Len(history))
    ELSE history

\* CleanMalariaBotUI._add_chat_entry(question, response), at time `timestamp`
AddChatEntry(question, response, timestamp) ==
    /\ Len(added) < MaxAdded
    /\ LET chat_entry == [question |-> question, response |-> response,
                          timestamp |-> timestamp, rag_used |-> ai.rag_enabled]
       IN /\ chat_history' = TrimHistory(Append(chat_history, chat_entry))
          /\ added' = Append(added, chat_entry)
    /\ UNCHANGED <<ragVars, concVars, ai, reply>>

\* the "Clear Chat" button: st.session_state.chat_history = []
ClearChat ==
    /\ chat_history' = <<>>
    /\ added' = <<>>
    /\ UNCHANGED <<ragVars, concVars, ai, reply>>

\* CleanMalariaBotUI.__init__ in a new session: an assistant, an empty chat
InitChat ==
    /\ fileExists = FALSE
    /\ fileFormat = "list"
    /\ corpus = <<>>
    /\ store = <<>>
    /\ hasInstance = FALSE
    /\ ret = NoRet
    /\ NoCallers
    /\ \E enabled \in BOOLEAN, available \in BOOLEAN :
          ai = [constructed |-> TRUE, RAG_AVAILABLE |-> enabled, rag |-> enabled,
                rag_enabled |-> enabled, ollama_available |-> available]
    /\ reply = NoReply
    /\ chat_history = <<>>
    /\ added = <<>>

NextChat ==
    \/ \E q \in Queries, r \in Replies, t \in Times : AddChatEntry(q, r, t)
    \/ ClearChat

SpecChat == InitChat /\ [][NextChat]_vars

----------------------------------------------------------------------------
(* The assistant: OllamaMalariaAI (src/malaria_bot.py).  The emoji that     *)
(* start its messages are written "*".                                      *)

\* Python's `sub in str`
Contains(str, sub) ==
    \E i \in 1..(Len(str) - Len(sub) + 1) : SubSeq(str, i, i + Len(sub) - 1) = sub

\* what MalariaDataAnalyzer.get_current_situation returns: the record of a
\* district or sector period (`complete`: it has the keys the summaries read),
\* or {"error": "No data available for selected period"} for a period without rows
DistrictContext == [admin_level |-> Some("districts"), complete |-> TRUE]
SectorContext == [admin_level |-> Some("sectors"), complete |-> TRUE]
ErrorContext == [admin_level |-> None, complete |-> FALSE]
DataContexts == {DistrictContext, SectorContext, ErrorContext}

\* how the POST to /api/generate ends
HttpOutcomes == {"ok", "status", "timeout", "exception"}

\* OllamaMalariaAI._call_ollama: the string it returns and the requests it posts
call_ollama(http) ==
    IF ~ai.ollama_available
    THEN [response |-> "* Local AI not available. Please start Ollama: ollama serve",
          posts |-> 0]
    ELSE [response |->
              CASE http = "ok" -> "Prioritise the top sectors."
                [] http = "status" -> "* Error: Ollama returned status 500"
                [] http = "timeout" -> "* Response took too long. Try a simpler question."
                [] OTHER -> "* Error: Connection refused",
          posts |-> 1]

\* f"{title} - {source}" of each result
RagSources(results) ==
    [i \in 1..Len(results) |->
        results[i].metadata.title \o " - " \o results[i].metadata.source]

\* ', '.join(rag_sources[:2])
JoinSources(rag_sources) ==
    IF Len(rag_sources) = 1 THEN rag_sources[1]
    ELSE rag_sources[1] \o ", " \o rag_sources[2]

AnswerOutcome(raised, response, searches, on_none, completions, posts, rag_context) ==
    [raised |-> raised, response |-> response, searches |-> searches,
     on_none |-> on_none, completions |-> completions, posts |-> posts,
     rag_context |-> rag_context]

\* the data summary and the prompt, the completion call, the sources line
AnswerFrom(data_context, http, searches, rag_context, rag_sources) ==
    IF ~data_context.complete
    THEN AnswerOutcome("KeyError", None, searches, FALSE, 0, 0, rag_context)
    ELSE LET called == call_ollama(http)
             response ==
                 IF /\ rag_sources # <<>>
                    /\ ~Contains(called.response, "Error")
                    /\ ~Contains(called.response, "took too long")
                 THEN called.response \o "\n\n* Sources: " \o JoinSources(rag_sources)
                 ELSE called.response
         IN AnswerOutcome("", Some(response), searches, FALSE, 1, called.posts,
                          rag_context)

\* OllamaMalariaAI.answer_with_rag: an exception of the search is caught
answer_with_rag(question, data_context, http) ==
    IF ~ai.rag_enabled
    THEN {AnswerFrom(data_context, http, 0, "", <<>>)}
    ELSE IF ~ai.rag
    THEN {[AnswerFrom(data_context, http, 1, "unavailable", <<>>)
              EXCEPT !.on_none = TRUE]}
    ELSE {IF found.raised # ""
          THEN AnswerFrom(data_context, http, 1, "unavailable", <<>>)
          ELSE IF found.results = <<>>
          THEN AnswerFrom(data_context, http, 1, "none", <<>>)
          ELSE AnswerFrom(data_context, http, 1, "knowledge", RagSources(found.results))
          : found \in search(question, RagResults, None)}

\* OllamaMalariaAI._answer_without_rag
answer_without_rag(question, data_context, http) ==
    {AnswerFrom(data_context, http, 0, "", <<>>)}

\* OllamaMalariaAI.answer_custom_question
answer_custom_question(question, data_context, http) ==
    IF ai.rag_enabled
    THEN answer_with_rag(question, data_context, http)
    ELSE answer_without_rag(question, data_context, http)

\* OllamaMalariaAI(): tests the connection; with fast_rag imported, constructs
\* FastMalariaRAG, which may fail while loading its model or in load_knowledge
ConstructAssistant ==
    /\ \E available \in BOOLEAN, loaded \in BOOLEAN :
          IF ai.RAG_AVAILABLE /\ loaded
          THEN \E o \in load_knowledge :
                  /\ store' = o.store
                  /\ hasInstance' = (hasInstance \/ o.raised = "")
                  /\ ret' = [BuildRet("__init__", o) EXCEPT !.fresh = ~hasInstance]
                  /\ ai' = [constructed |-> TRUE, RAG_AVAILABLE |-> TRUE,
                            rag |-> (o.raised = ""), rag_enabled |-> (o.raised = ""),
                            ollama_available |-> available]
          ELSE /\ ai' = [constructed |-> TRUE, RAG_AVAILABLE |-> ai.RAG_AVAILABLE,
                         rag |-> FALSE, rag_enabled |-> FALSE,
                         ollama_available |-> available]
               /\ UNCHANGED <<store, hasInstance, ret>>
    /\ reply' = [op |-> "__init__"]
    /\ UNCHANGED <<fileExists, fileFormat, corpus, concVars, chat_history, added>>

\* answer_custom_question(question, data_context) on the constructed assistant
AnswerCustomQuestion(question, data_context, http) ==
    /\ ai.constructed
    /\ \E o \in answer_custom_question(question, data_context, http) :
          reply' = [op |-> "answer_custom_question", question |-> question,
                    data_context |-> data_context, raised |-> o.raised,
                    response |-> o.response, searches |-> o.searches,
                    on_none |-> o.on_none, completions |-> o.completions,
                    posts |-> o.posts, rag_context |-> o.rag_context]
    /\ UNCHANGED <<ragVars, concVars, ai, chat_history, added>>

\* the module is imported (fast_rag importable or not); the corpus file and
\* the persisted collection are as earlier runs left them
InitAssistant ==
    /\ \E f \in FileStates, persisted \in BOOLEAN :
          /\ fileExists = f.exists
          /\ fileFormat = f.format
          /\ corpus = f.knowledge
          /\ store = IF persisted THEN BuiltStore(f.knowledge) ELSE <<>>
    /\ hasInstance = FALSE
    /\ ret = NoRet
    /\ NoCallers
    /\ \E imported \in BOOLEAN : ai = [NoObject EXCEPT !.RAG_AVAILABLE = imported]
    /\ reply = NoReply
    /\ chat_history = <<>>
    /\ added = <<>>

NextAssistant ==
    \/ ConstructAssistant
    \/ \E q \in Queries, d \in DataContexts, h \in HttpOutcomes :
          AnswerCustomQuestion(q, d, h)

SpecAssistant == InitAssistant /\ [][NextAssistant]_vars

----------------------------------------------------------------------------
(* Properties *)

IsBuild(r) == r.op \in {"__init__", "load_knowledge"}
IsSearch(r) == r.op = "search"
IsContext(r) == r.op = "get_context"

StoredDocuments == [i \in 1..Len(store) |-> store[i].document]

\* the stored documents a caller's category_filter value designates: those whose
\* category equals it, all of them when no filter is given
Designated(category_filter) ==
    {i \in 1..Len(store) :
        category_filter = None \/ store[i].metadata.category = category_filter[1]}

\* store positions of the documents a result sequence holds
Returned(results) == {results[i].metadata.entry_id + 1 : i \in 1..Len(results)}

HasPrefix(str, prefix) ==
    Len(str) >= Len(prefix) /\ SubSeq(str, 1, Len(prefix)) = prefix

\* C1: a build (by the constructor or by load_knowledge) that runs on a populated
\* collection leaves every stored document, and so count(), unchanged and makes
\* no call to the embedding provider.
C1_IdempotentBuild ==
    [][(Count > 0 /\ IsBuild(ret')) =>
          (store' = store /\ ret'.encodeCalls = 0)]_vars

\* a second build of the corpus that populated the collection has returned
C1_Witness ==
    /\ ret.op = "load_knowledge"
    /\ ret.path = "already_loaded"
    /\ Count > 0
    /\ fileExists /\ StoredDocuments = Documents(corpus)

C3_BoundedResultSize ==
    (IsSearch(ret) /\ ret.category_filter = None /\ ret.raised # "ProviderError") =>
        /\ ret.raised = ""
        /\ Len(ret.results) = Min(ret.n_results, Count)

\* C4: for every supplied category_filter, every result of search carries that
\* category, and a filter no document matches gives an empty result, not an
\* error (stated for k >= 1; the embedding provider not failing).
C4_FilterCorrectness ==
    (IsSearch(ret) /\ ret.category_filter # None /\ ret.raised # "ProviderError") =>
        /\ \A i \in 1..Len(ret.results) :
              ret.results[i].metadata.category = ret.category_filter[1]
        /\ (ret.n_results >= 1 /\ Designated(ret.category_filter) = {}) =>
              (ret.raised = "" /\ ret.results = <<>>)

\* C5: on a populated index search requests min(k, count()) candidates and
\* returns min(k, number of matching documents) results, all of them matching
\* the filter, and no matching document left out is strictly nearer than a
\* returned one (the embedding provider not failing).
C5_TopKUnderFilter ==
    (IsSearch(ret) /\ Count > 0 /\ ret.raised # "ProviderError") =>
        LET M == Designated(ret.category_filter)
            R == Returned(ret.results)
            D(i) == Distance(Encode(ret.query), store[i].embedding)
        IN /\ ret.raised = ""
           /\ ret.requested = Min(ret.n_results, Count)
           /\ Len(ret.results) = Min(ret.n_results, Cardinality(M))
           /\ Cardinality(R) = Len(ret.results)
           /\ R \subseteq M
           /\ \A m \in M \ R : \A i \in 1..Len(ret.results) :
                 ret.results[i].distance <= D(m)

\* C6: the distances of the results of a search are non-decreasing along the
\* sequence, their relevance scores non-increasing, and the results are in the
\* order the index query returned them.
C6_RankingOrder ==
    (IsSearch(ret) /\ ret.raised = "") =>
        /\ \A i, j \in 1..Len(ret.results) : i < j =>
              /\ ret.results[i].distance <= ret.results[j].distance
              /\ ret.results[i].relevance_score >= ret.results[j].relevance_score
        /\ Len(ret.queried) = Len(ret.results)
        /\ \A i \in 1..Len(ret.results) :
              DocId(ret.results[i].metadata.entry_id) = ret.queried[i]

\* a search returned two or more results at different distances
C6_Witness ==
    /\ IsSearch(ret) /\ ret.raised = ""
    /\ Len(ret.results) >= 2
    /\ ret.results[1].distance < ret.results[Len(ret.results)].distance

\* C7: every result of a search has relevance_score = 1 - distance, unclamped.
C7_ScoreIdentity ==
    ((IsSearch(ret) \/ IsContext(ret)) /\ ret.raised = "") =>
        \A i \in 1..Len(ret.results) :
            ret.results[i].relevance_score = 1 - ret.results[i].distance

\* a search returned a result at a distance above 1, with a negative score
C7_Witness ==
    /\ IsSearch(ret) /\ ret.raised = ""
    /\ \E i \in 1..Len(ret.results) :
          ret.results[i].distance > 1 /\ ret.results[i].relevance_score < 0

\* C8: on an empty index search returns the empty sequence and raises nothing,
\* for every query, k and category filter.
C8_EmptyIndexSearch ==
    (IsSearch(ret) /\ Count = 0) => (ret.raised = "" /\ ret.results = <<>>)

\* a search with k = 0 and a category filter ran on the empty index
C8_Witness ==
    /\ IsSearch(ret) /\ Count = 0
    /\ ret.n_results = 0
    /\ ret.category_filter = Some("treatment")
    /\ ret.results = <<>>

\* C9: get_context returns exactly the sentinel when its search returned no
\* result, which is always the case on an empty index, and a string that starts
\* with the header line when its search returned results.
C9_ContextSentinel ==
    IsContext(ret) =>
        /\ Count = 0 => (ret.raised = "" /\ ret.results = <<>>)
        /\ (ret.raised = "" /\ ret.results = <<>>) => ret.context = Sentinel
        /\ (ret.raised = "" /\ ret.results # <<>>) => HasPrefix(ret.context, Header)

\* get_context returned the sentinel on the empty index
C9_Witness ==
    /\ IsContext(ret) /\ Count = 0 /\ ret.raised = ""
    /\ ret.context = Sentinel

\* C10: the content get_context renders for a result is the first 800 characters
\* followed by the truncation marker when the content is longer than 800
\* characters, and the content itself when it has 800 characters or fewer.
C10_TruncationLaw ==
    (IsContext(ret) /\ ret.raised = "") =>
        /\ Len(ret.rendered) = Len(ret.results)
        /\ \A i \in 1..Len(ret.results) :
              LET content == ret.results[i].content
                  shown == ret.rendered[i]
              IN IF Len(content) > 800
                 THEN /\ Len(shown) = 800 + Len("...\n[Content truncated for brevity]")
                      /\ SubSeq(shown, 1, 800) = SubSeq(content, 1, 800)
                      /\ SubSeq(shown, 801, Len(shown)) =
                            "...\n[Content truncated for brevity]"
                 ELSE shown = content

\* get_context rendered a result of exactly 800 characters and a longer one
C10_Witness ==
    /\ IsContext(ret) /\ ret.raised = ""
    /\ \E i \in 1..Len(ret.results) : Len(ret.results[i].content) = 800
    /\ \E i \in 1..Len(ret.results) : Len(ret.results[i].content) > 800

IsStats(r) == r.op = "get_stats"
IsCategories(r) == r.op = "get_categories"

RECURSIVE SumOver(_, _)
\* the sum of d[k] over the keys k in S
SumOver(d, S) ==
    IF S = {} THEN 0
    ELSE LET k == CHOOSE x \in S : TRUE
         IN d[k] + SumOver(d, S \ {k})

\* C11: on a populated index get_stats returns total_documents equal to count(),
\* to the sum of the per-category counts and to the sum of the per-source counts.
C11_StatsConsistency ==
    (IsStats(ret) /\ Count > 0) =>
        /\ ret.stats.total_documents = Count
        /\ SumOver(ret.stats.categories, DOMAIN ret.stats.categories) = Count
        /\ SumOver(ret.stats.sources, DOMAIN ret.stats.sources) = Count

\* get_stats ran on an index of three documents, two of one category and source
C11_Witness ==
    /\ IsStats(ret) /\ Count = 3
    /\ \E c \in DOMAIN ret.stats.categories : ret.stats.categories[c] = 2
    /\ \E c \in DOMAIN ret.stats.sources : ret.stats.sources[c] = 2

\* C12: on an empty index get_stats returns an error value, a record whose only
\* key is "error", and get_categories returns the empty sequence.
C12_EmptyIndexStats ==
    /\ (IsStats(ret) /\ Count = 0) =>
          /\ DOMAIN ret.stats = {"error"}
          /\ ret.stats.error = "No knowledge base loaded"
          /\ ret.raised = ""
    /\ (IsCategories(ret) /\ Count = 0) =>
          (ret.categories = <<>> /\ ret.raised = "")

\* get_stats returned its error value on the empty index
C12_Witness ==
    /\ IsStats(ret) /\ Count = 0
    /\ "error" \in DOMAIN ret.stats

\* C13: get_categories returns the categories of the stored documents, each
\* exactly once, in strictly ascending order, and nothing else.
C13_SortedCategories ==
    IsCategories(ret) =>
        /\ {ret.categories[i] : i \in 1..Len(ret.categories)} =
              {store[i].metadata.category : i \in 1..Len(store)}
        /\ \A i, j \in 1..Len(ret.categories) : i < j =>
              StrLess(ret.categories[i], ret.categories[j])

\* get_categories returned two categories for three documents stored in another
\* order than the sorted one
C13_Witness ==
    /\ IsCategories(ret) /\ Count = 3
    /\ Len(ret.categories) = 2
    /\ store[1].metadata.category = ret.categories[2]

\* the collection holds exactly what a build of corpus c stores
StoreMatches(c) ==
    /\ Documents(c) = StoredDocuments
    /\ Metadatas(c) = AllMetadatas

\* C14: once the collection is populated no step, of a public operation or of
\* the corpus file's writers, makes count() 0 again.
C14_NoWayBack == [][Count > 0 => Count' > 0]_vars

\* load_knowledge ran on a populated collection while the file held an empty list
C14_Witness ==
    /\ ret.op = "load_knowledge"
    /\ fileExists /\ fileFormat = "list" /\ corpus = <<>>
    /\ Count > 0

\* C15: the first FastMalariaRAG() of a process that finds the persisted
\* collection non-empty completes without an embedding call and without adding
\* to the collection, and every search result is a persisted document.
C15_RestartOnPersistedStore ==
    /\ [][(Count > 0 /\ ~hasInstance /\ ret'.op = "__init__") =>
             /\ ret'.raised = "" /\ hasInstance'
             /\ ret'.path \in {"already_loaded", "not_found"}
             /\ ret'.encodeCalls = 0
             /\ store' = store]_vars
    /\ []((IsSearch(ret) /\ ret.raised = "") =>
             \A i \in 1..Len(ret.results) : \E j \in 1..Len(store) :
                 /\ store[j].document = ret.results[i].content
                 /\ store[j].metadata = ret.results[i].metadata)

\* a new process constructed its object on a collection an earlier one populated
C15_Witness ==
    /\ ret.op = "__init__" /\ ret.fresh
    /\ ret.path = "already_loaded"
    /\ hasInstance /\ Count > 0

\* C16: a build run on a populated collection while the file holds a corpus
\* other than the stored one returns "already loaded" and changes nothing.
C16_NoRefresh ==
    [][(Count > 0 /\ IsBuild(ret') /\ fileExists /\ fileFormat = "list"
        /\ ~StoreMatches(corpus)) =>
          /\ store' = store
          /\ ret'.path = "already_loaded"
          /\ ret'.encodeCalls = 0]_vars

\* a build returned on a collection that holds the entries of the file's corpus
\* in another order
C16_Witness ==
    /\ IsBuild(ret) /\ ret.path = "already_loaded"
    /\ fileExists /\ fileFormat = "list"
    /\ Len(corpus) = Count /\ Count >= 2
    /\ ~StoreMatches(corpus)
    /\ {corpus[i].title : i \in 1..Len(corpus)} =
          {store[i].metadata.title : i \in 1..Len(store)}

\* C17 as stated: the document stored for 0-based position i has the id "doc_{i}".
C17_IdIsDocPosition ==
    \A i \in 1..Len(store) : store[i].id = "doc_" \o ToString(i - 1)

\* C17 amended: the build gives the entry at 0-based position i of the corpus
\* the id "malaria_doc_{i}" (and entry_id i), so the ids are pairwise distinct
\* and depend on the position alone.
C17_DocIds ==
    /\ \A i \in 1..Len(store) :
          /\ store[i].id = "malaria_doc_" \o ToString(i - 1)
          /\ store[i].metadata.entry_id = i - 1
    /\ \A i, j \in 1..Len(store) : i # j => store[i].id # store[j].id
    /\ (IsBuild(ret) /\ ret.path = "embedded") =>
          /\ Len(store) = Len(corpus)
          /\ \A i \in 1..Len(corpus) :
                store[i].document = ComposeText(corpus[i])

\* a build stored a corpus of three entries
C17_Witness ==
    /\ IsBuild(ret) /\ ret.path = "embedded"
    /\ Len(corpus) = 3 /\ Count = 3

\* C18 as stated: a build that finds no corpus file fails with an error.
C18_MissingFileFails ==
    (IsBuild(ret) /\ ~fileExists) => ret.raised # ""

\* C18 amended: a build that finds no corpus file returns normally at the
\* not-found check, with no embedding call and the collection unchanged, and a
\* constructor that ran it yields an object.
C18_MissingFileReturns ==
    /\ []((IsBuild(ret) /\ ~fileExists) =>
             /\ ret.raised = ""
             /\ ret.path = "not_found"
             /\ ret.encodeCalls = 0
             /\ (ret.op = "__init__" => hasInstance))
    /\ [][(IsBuild(ret') /\ ~fileExists) => store' = store]_vars

\* the first constructor of a process ran without a corpus file on an empty store
C18_Witness ==
    /\ ret.op = "__init__" /\ ret.fresh
    /\ ~fileExists /\ Count = 0
    /\ ret.path = "not_found" /\ hasInstance

C20_EmbeddingFailurePropagates ==
    /\ (IsBuild(ret) /\ ret.path = "embedding") =>
          /\ ret.raised = "ProviderError"
          /\ Count = 0
          /\ (ret.op = "__init__" /\ ret.fresh) => ~hasInstance
    /\ (IsSearch(ret) /\ ret.path = "encoding") =>
          (ret.raised = "ProviderError" /\ ret.results = <<>>)
    /\ \A j \in 1..Len(store) : store[j].embedding = Encode(store[j].document)
    /\ (IsSearch(ret) /\ ret.raised = "") =>
          \A i \in 1..Len(ret.results) :
              ret.results[i].distance =
                  Distance(Encode(ret.query), Encode(ret.results[i].content))

\* the embedding provider failed in the first constructor of a process
C20_Witness ==
    /\ ret.op = "__init__" /\ ret.fresh
    /\ ret.path = "embedding" /\ ret.raised = "ProviderError"
    /\ Len(corpus) >= 2 /\ Count = 0 /\ ~hasInstance

\* C22: a build that stores (on an empty store, a corpus of N >= 1 entries)
\* makes one call to the embedding provider and ends with count() = N; the
\* document of position i has the text "Title: {title}\n\nContent: {content}"
\* of entry i, its title, source and category, entry_id i, text_length the
\* length of that text, and the provider's vector of that text.  A build that
\* called the provider and raised nothing is such a build.
C22_FirstBuildStoresCorpus ==
    /\ (IsBuild(ret) /\ ret.path = "embedded") =>
          /\ ret.encodeCalls = 1
          /\ corpus # <<>>
          /\ Count = Len(corpus)
          /\ \A i \in 1..Len(corpus) :
                LET text == "Title: " \o corpus[i].title
                            \o "\n\nContent: " \o corpus[i].content
                IN /\ store[i].document = text
                   /\ store[i].metadata.title = corpus[i].title
                   /\ store[i].metadata.source = corpus[i].source
                   /\ store[i].metadata.category = corpus[i].category
                   /\ store[i].metadata.entry_id = i - 1
                   /\ store[i].metadata.text_length = Len(text)
                   /\ store[i].embedding = Encode(text)
    /\ (IsBuild(ret) /\ ret.encodeCalls > 0 /\ ret.raised = "") =>
          ret.path = "embedded"

\* a build stored a corpus of two entries that starts with the long one
C22_Witness ==
    /\ IsBuild(ret) /\ ret.path = "embedded"
    /\ Len(corpus) = 2 /\ corpus[1] = EntryLong
    /\ Count = 2

RECURSIVE ExpectedBlocks(_, _, _)
\* blocks i.. of a context, written out: number, title, source, category,
\* relevance, the content as rendered, the separator line
ExpectedBlocks(results, rendered, i) ==
    IF i > Len(results) THEN ""
    ELSE ToString(i) \o ". " \o results[i].metadata.title
         \o "\n   Source: " \o results[i].metadata.source
         \o " | Category: " \o results[i].metadata.category
         \o "\n   Relevance: " \o ToString(results[i].relevance_score) \o ".000"
         \o "\n\n" \o rendered[i] \o "\n\n"
         \o "--------------------------------------------------------------------------------"
         \o "\n\n"
         \o ExpectedBlocks(results, rendered, i + 1)

\* C23: for a search result of n >= 1 entries get_context returns the header
\* followed by n blocks numbered 1..n in the order of the result, each with the
\* title, source, category and relevance score of its entry; two calls whose
\* searches returned the same ranked sequence return the same string.
C23_ContextBlocks ==
    /\ []((IsContext(ret) /\ ret.raised = "" /\ ret.results # <<>>) =>
             /\ Len(ret.rendered) = Len(ret.results)
             /\ ret.context =
                    Header \o ExpectedBlocks(ret.results, ret.rendered, 1))
    /\ [][(/\ IsContext(ret) /\ ret.raised = ""
           /\ IsContext(ret') /\ ret'.raised = ""
           /\ ret'.results = ret.results) => ret'.context = ret.context]_vars

\* get_context rendered two results, the second one farther than the first
C23_Witness ==
    /\ IsContext(ret) /\ ret.raised = ""
    /\ Len(ret.results) = 2
    /\ ret.results[1].relevance_score > ret.results[2].relevance_score

RECURSIVE SumTextLengths(_)
\* the sum of metadata.text_length over the stored documents of positions S
SumTextLengths(S) ==
    IF S = {} THEN 0
    ELSE LET i == CHOOSE x \in S : TRUE
         IN store[i].metadata.text_length + SumTextLengths(S \ {i})

\* C24: on a populated index get_stats().total_text_length is the sum of
\* metadata.text_length over all stored documents and avg_document_length is
\* that total divided by count().
C24_StatsTotals ==
    (IsStats(ret) /\ Count > 0) =>
        /\ ret.stats.total_text_length = SumTextLengths(1..Count)
        /\ ret.stats.avg_document_length.num = ret.stats.total_text_length
        /\ ret.stats.avg_document_length.den = Count

\* get_stats ran on an index of two documents of different lengths
C24_Witness ==
    /\ IsStats(ret) /\ Count = 2
    /\ store[1].metadata.text_length # store[2].metadata.text_length
    /\ ret.stats.total_text_length > store[1].metadata.text_length

C27_ContextUnfiltered ==
    IsContext(ret) =>
        /\ \E o \in search(ret.query, ret.n_results, None) :
              /\ o.raised = ret.raised
              /\ ret.raised = "" =>
                    /\ o.results = ret.results
                    /\ ret.context = RenderContext(o.results)
        /\ ret.raised = "" => Len(ret.results) = Min(ret.n_results, Count)

\* get_context rendered results of two categories
C27_Witness ==
    /\ IsContext(ret) /\ ret.raised = ""
    /\ Len(ret.results) = 2
    /\ ret.results[1].metadata.category # ret.results[2].metadata.category

\* C28: whenever count() > 0 the values of get_categories() are the keys of
\* get_stats().categories and every key counts at least 1; so for a
\* get_categories call followed by a get_stats call.
C28_CategoriesAgreeWithStats ==
    /\ [](Count > 0 =>
             /\ {get_categories[i] : i \in 1..Len(get_categories)}
                    = DOMAIN get_stats.categories
             /\ \A k \in DOMAIN get_stats.categories : get_stats.categories[k] >= 1)
    /\ [][(IsCategories(ret) /\ IsStats(ret') /\ Count > 0) =>
             {ret.categories[i] : i \in 1..Len(ret.categories)}
                 = DOMAIN ret'.stats.categories]_vars

\* get_stats ran on an index of three documents in two categories
C28_Witness ==
    /\ IsStats(ret) /\ Count = 3
    /\ Cardinality(DOMAIN ret.stats.categories) = 2
    /\ \E k \in DOMAIN ret.stats.categories : ret.stats.categories[k] = 2

\* C26: when two callers run load_knowledge concurrently on one empty store and
\* one corpus of N entries, the store holds no id twice and holds either
\* nothing or the N documents of the corpus, one per position; it holds them
\* all once a build has stored.
C26_ConcurrentBuilds ==
    /\ \A i, j \in 1..Len(store) : i # j => store[i].id # store[j].id
    /\ Count \in {0, Len(corpus)}
    /\ \A i \in 1..Len(store) :
          /\ store[i].metadata.entry_id = i - 1
          /\ store[i].document = ComposeText(corpus[i])
    /\ (\E p \in Callers : pc[p] = "done" /\ loc[p].path = "embedded") =>
          Count = Len(corpus)

\* both callers passed the count() check on the empty store and both added
C26_Witness ==
    /\ \A p \in Callers : pc[p] = "done" /\ loc[p].path = "embedded"
    /\ Len(corpus) = 3
    /\ Count = 3

\* what a call that has returned would have returned or raised run alone
AsAlone(l) ==
    CASE l.op = "search" ->
           \E o \in search(l.query, l.n_results, l.category_filter) :
               o.path = l.path /\ o.raised = l.raised /\ o.results = l.result
      [] l.op = "get_context" ->
           \E o \in get_context(l.query, l.n_results) :
               /\ o.raised = l.raised
               /\ l.raised = "" => o.context = l.result
      [] l.op = "get_categories" -> l.result = get_categories
      [] l.op = "get_stats" -> l.result = get_stats
      [] OTHER -> FALSE

\* C21: after the build, however the search, get_context, get_stats and
\* get_categories calls of several callers interleave, no step changes the
\* collection and each call returns (or raises) what it would run alone.
C21_ReadOnlyQueries ==
    /\ [](\A p \in Callers : pc[p] = "done" => AsAlone(loc[p]))
    /\ [][store' = store]_vars

\* a filtered search and an unfiltered one of another caller both returned,
\* with different results, on an index of three documents
C21_Witness ==
    /\ Count = 3
    /\ \A p \in Callers : pc[p] = "done" /\ loc[p].op = "search" /\ loc[p].raised = ""
    /\ loc["first"].category_filter = None
    /\ loc["second"].category_filter = Some("treatment")
    /\ loc["first"].query = loc["second"].query
    /\ loc["first"].n_results = loc["second"].n_results
    /\ loc["first"].result # loc["second"].result

\* C29: after any sequence of _add_chat_entry calls and chat clears the
\* history holds at most 5 entries: the last min(5, n) of the n entries added
\* since the last clear, in the order they were added.
C29_BoundedChatHistory ==
    /\ Len(chat_history) <= 5
    /\ Len(chat_history) = Min(5, Len(added))
    /\ \A i \in 1..Len(chat_history) :
          chat_history[i] = added[Len(added) - Len(chat_history) + i]

\* seven entries were added since the last clear; the history starts at the third
C29_Witness ==
    /\ Len(added) = 7
    /\ Len(chat_history) = 5
    /\ chat_history[1] = added[3]
    /\ added[3] # added[1]
    /\ chat_history[5] = added[7]

IsAnswer(r) == r.op = "answer_custom_question"

\* C30 as stated: rag_enabled is True only with a constructed FastMalariaRAG;
\* answer_custom_question searches only when rag_enabled is True, never on a
\* missing rag object, and in every case makes exactly one text-completion
\* call and returns a response string.
C30_AnswerAlwaysReplies ==
    /\ ai.rag_enabled => ai.rag
    /\ IsAnswer(reply) =>
          /\ reply.searches > 0 => ai.rag_enabled
          /\ ~reply.on_none
          /\ reply.completions = 1
          /\ reply.raised = ""
          /\ reply.response # None

====
